---- MODULE Spec2Model ----
(***************************************************************************)
(* Model of the build triggerer of drone (trigger/trigger.go): the         *)
(* function triggerer.Trigger and its error path createBuildError, run by  *)
(* several concurrent invocations against one repository, together with    *)
(* the collaborators it calls (user store, commit service, config service, *)
(* repository store, build store, scheduler, status service, webhook       *)
(* sender).                                                                *)
(*                                                                         *)
(* Text values that the code inspects character by character (messages,    *)
(* slugs, branches, refs) are sequences of one-character strings.          *)
(***************************************************************************)
EXTENDS Integers, Sequences, FiniteSets, TLC

(***************************************************************************)
(* Bounds of the model.                                                    *)
(***************************************************************************)
\* number of Trigger invocations that may run concurrently
NumProcs == 2
\* the most endpoints the webhook sender is configured with
MaxEndpoints == 3
\* value of the repository counter before the first invocation
OldCounter == 3

Procs == 1..NumProcs

(***************************************************************************)
(* core constants                                                          *)
(***************************************************************************)
EventPush == "push"
EventPullRequest == "pull_request"
EventTag == "tag"
EventPromote == "promote"

TriggerHook == "@hook"
TriggerUser == "octocat"

StatusPending == "pending"
StatusWaiting == "waiting_on_dependencies"
StatusBlocked == "blocked"
StatusError == "error"
StatusPassing == "success"
StatusFailing == "failure"

\* the nil build and the nil error
NoBuild == [nil |-> TRUE]
NoErr == "nil"

(***************************************************************************)
(* Text helpers                                                            *)
(***************************************************************************)
\* unicode.ToLower / simple case folding on the characters the model uses
ToLowerChar(c) ==
    CASE c = "A" -> "a"
      [] c = "B" -> "b"
      [] c = "C" -> "c"
      [] c = "I" -> "i"
      [] c = "K" -> "k"
      [] c = "P" -> "p"
      [] c = "S" -> "s"
      [] OTHER -> c

ToLower(s) == [i \in 1..Len(s) |-> ToLowerChar(s[i])]

\* strings.EqualFold
EqualFold(s, t) == ToLower(s) = ToLower(t)

\* strings.Contains
Contains(s, sub) ==
    \E i \in 0..(Len(s) - Len(sub)) : SubSeq(s, i + 1, i + Len(sub)) = sub

CiSkip == <<"[", "c", "i", " ", "s", "k", "i", "p", "]">>
SkipCi == <<"[", "s", "k", "i", "p", " ", "c", "i", "]">>

\* skip directive scanner: case-insensitive search of the message, or of
\* the title when the message is empty
skipMessage(base) ==
    LET text == IF base.Message = <<>> THEN base.Title ELSE base.Message
        lower == ToLower(text)
    IN  Contains(lower, CiSkip) \/ Contains(lower, SkipCi)

\* the length limit of title and message
TruncLimit == 2000

\* trunc: the first i characters of s
trunc(s, i) == IF Len(s) > i THEN SubSeq(s, 1, i) ELSE s

\* glob match of pattern pat against the whole of s ('*' and '?')
RECURSIVE GlobMatch(_, _)
GlobMatch(pat, s) ==
    IF pat = <<>> THEN s = <<>>
    ELSE IF Head(pat) = "*"
         THEN GlobMatch(Tail(pat), s) \/ (s # <<>> /\ GlobMatch(pat, Tail(s)))
         ELSE /\ s # <<>>
              /\ (Head(pat) = "?" \/ Head(pat) = Head(s))
              /\ GlobMatch(Tail(pat), Tail(s))

\* an include/exclude constraint
Cond(inc, exc) == [Include |-> inc, Exclude |-> exc]
NoCond == Cond(<<>>, <<>>)

InList(list, v, glob) ==
    \E i \in 1..Len(list) : IF glob THEN GlobMatch(list[i], v) ELSE list[i] = v

\* Condition.Match: excluded values never match, included values match,
\* and an empty include list matches everything not excluded
Match(c, v, glob) ==
    /\ ~InList(c.Exclude, v, glob)
    /\ (c.Include = <<>> \/ InList(c.Include, v, glob))

skipBranch(pipeline, branch) == ~Match(pipeline.Trigger.Branch, branch, TRUE)
skipEvent(pipeline, event) == ~Match(pipeline.Trigger.Event, event, FALSE)
skipRef(pipeline, ref) == ~Match(pipeline.Trigger.Ref, ref, TRUE)
skipRepo(pipeline, slug) == ~Match(pipeline.Trigger.Repo, slug, TRUE)
skipTarget(pipeline, env) == ~Match(pipeline.Trigger.Target, env, TRUE)

(***************************************************************************)
(* Inputs: the repository, the hooks, the users, commits and               *)
(* configurations the collaborators may return.                            *)
(***************************************************************************)
Slug == <<"a", "/", "b">>
Main == <<"m">>
Dev == <<"d", "e", "v">>
RefMain == <<"r", "/", "h", "/", "m">>
RefTag == <<"r", "/", "t", "/", "1">>
Secret == "s3cret"

\* the repository row as the repository store holds it
Repo0 ==
    [ID |-> 1, UserID |-> 1, Slug |-> Slug, Config |-> ".drone.yml",
     Trusted |-> FALSE, Protected |-> FALSE, Secret |-> Secret,
     IgnorePulls |-> FALSE, IgnoreForks |-> FALSE, Counter |-> OldCounter]

Repos ==
    { Repo0,
      [Repo0 EXCEPT !.IgnorePulls = TRUE],
      [Repo0 EXCEPT !.IgnoreForks = TRUE],
      [Repo0 EXCEPT !.Protected = TRUE],
      [Repo0 EXCEPT !.Trusted = TRUE] }

ReposFew == { Repo0, [Repo0 EXCEPT !.Protected = TRUE] }

Hook0 ==
    [Event |-> EventPush, Action |-> "", Trigger |-> TriggerHook, Parent |-> 0,
     Link |-> "link", Title |-> <<"t">>, Message |-> <<"f", "i", "x">>,
     Before |-> "sha0", After |-> "sha1", Ref |-> RefMain, Fork |-> Slug,
     Source |-> Main, Target |-> Main, Author |-> "octocat",
     AuthorName |-> "Octo", AuthorEmail |-> "o@x", AuthorAvatar |-> "img",
     Params |-> "k=v", Deployment |-> <<>>, Sender |-> "octocat"]

\* "fix [CI Skip]"
MsgSkip == <<"f", "i", "x", " ", "[", "C", "I", " ", "S", "k", "i", "p", "]">>
\* "[skip ci] t"
TitleSkip == <<"[", "s", "k", "i", "p", " ", "c", "i", "]", " ", "t">>

HookSkipMessage == [Hook0 EXCEPT !.Message = MsgSkip]
HookSkipTitle == [Hook0 EXCEPT !.Message = <<>>, !.Title = TitleSkip]
HookBlank == [Hook0 EXCEPT !.Message = <<>>, !.AuthorName = ""]
HookBare == [Hook0 EXCEPT !.Message = <<>>, !.After = ""]
\* a hook whose title has TruncLimit characters and whose message has one
\* more
HookLong ==
    [Hook0 EXCEPT !.Title = [i \in 1..TruncLimit |-> "t"],
                  !.Message = [i \in 1..(TruncLimit + 1) |-> "m"]]
HookPullSame ==
    [Hook0 EXCEPT !.Event = EventPullRequest, !.Fork = <<"A", "/", "B">>,
                  !.Source = Dev]
HookPullFork ==
    [Hook0 EXCEPT !.Event = EventPullRequest, !.Fork = <<"c", "/", "b">>,
                  !.Source = Dev]
HookUser == [Hook0 EXCEPT !.Trigger = TriggerUser]
HookTag ==
    [Hook0 EXCEPT !.Event = EventTag, !.Ref = RefTag, !.Target = <<>>]
HookPromote ==
    [Hook0 EXCEPT !.Event = EventPromote, !.Trigger = TriggerUser,
                  !.Deployment = <<"p", "r", "o", "d">>, !.Parent = 1]

Hooks ==
    { Hook0, HookSkipMessage, HookSkipTitle, HookBlank, HookBare,
      HookPullSame, HookPullFork, HookUser, HookTag, HookPromote, HookLong }

HooksFew == { Hook0, HookSkipMessage }

\* the commit the commit service finds
Commit0 ==
    [Message |-> <<"m", "s", "g">>,
     Author |-> [Name |-> "Cat", Email |-> "c@x", Avatar |-> "pic"]]

\* pipeline triggers
NoTrigger ==
    [Branch |-> NoCond, Event |-> NoCond, Ref |-> NoCond, Repo |-> NoCond,
     Target |-> NoCond, Status |-> NoCond]

Pipeline0 ==
    [Kind |-> "pipeline", Name |-> "A", DependsOn |-> <<>>,
     Platform |-> [OS |-> "", Arch |-> "", Variant |-> "", Version |-> ""],
     Concurrency |-> [Limit |-> 0], Node |-> "", Privileged |-> FALSE,
     Trigger |-> NoTrigger]

PipeA == Pipeline0
PipeB == [Pipeline0 EXCEPT !.Name = "B", !.DependsOn = <<"A">>]
PipeC ==
    [Pipeline0 EXCEPT !.Name = "",
        !.Platform = [OS |-> "windows", Arch |-> "arm", Variant |-> "", Version |-> "1809"],
        !.Trigger = [NoTrigger EXCEPT !.Status = Cond(<<"failure">>, <<>>)]]
PipeTagOnly ==
    [Pipeline0 EXCEPT !.Name = "T",
        !.Trigger = [NoTrigger EXCEPT !.Event = Cond(<<EventTag>>, <<>>)]]
PipeMainOnly ==
    [Pipeline0 EXCEPT !.Name = "M",
        !.Trigger = [NoTrigger EXCEPT !.Branch = Cond(<<<<"m", "*">>>>, <<>>)]]
PipeNoHeads ==
    [Pipeline0 EXCEPT !.Name = "R",
        !.Trigger = [NoTrigger EXCEPT !.Ref = Cond(<<>>, <<<<"r", "/", "h", "/", "*">>>>)]]
PipeOtherRepo ==
    [Pipeline0 EXCEPT !.Name = "O",
        !.Trigger = [NoTrigger EXCEPT !.Repo = Cond(<<<<"c", "/", "?">>>>, <<>>)]]
PipeProd ==
    [Pipeline0 EXCEPT !.Name = "P",
        !.Trigger = [NoTrigger EXCEPT !.Target = Cond(<<<<"p", "r", "o", "d">>>>, <<>>)]]
\* pipelines with a status condition: excluding failure, and including
\* both success and failure
PipeNoFail ==
    [Pipeline0 EXCEPT !.Name = "N",
        !.Trigger = [NoTrigger EXCEPT !.Status = Cond(<<>>, <<"failure">>)]]
PipeAlways ==
    [Pipeline0 EXCEPT !.Name = "W",
        !.Trigger = [NoTrigger EXCEPT
                        !.Status = Cond(<<"success", "failure">>, <<>>)]]
PipePriv == [Pipeline0 EXCEPT !.Name = "V", !.Privileged = TRUE]
\* a resource that is not a pipeline
SecretRes == [Pipeline0 EXCEPT !.Kind = "secret", !.Name = "S"]

\* a configuration as the config service returns it: the text (Data), what
\* the converter, parser and signer make of it, and the parsed resources
Config0 ==
    [Data |-> "yaml", Converts |-> TRUE, Parses |-> TRUE, Signature |-> "",
     Resources |-> <<PipeA, PipeB>>]

\* no configuration yet
NoConfig == [Config0 EXCEPT !.Data = "", !.Resources = <<>>]

ConfigUnconvertible == [Config0 EXCEPT !.Data = "legacy", !.Converts = FALSE]
ConfigUnparsable == [Config0 EXCEPT !.Data = ":::", !.Parses = FALSE]
ConfigPrivileged ==
    [Config0 EXCEPT !.Data = "priv", !.Resources = <<PipePriv>>]
ConfigSigned ==
    [Config0 EXCEPT !.Data = "signed", !.Signature = Secret,
                    !.Resources = <<SecretRes, PipeA, PipeB, PipeC>>]
ConfigForged ==
    [Config0 EXCEPT !.Data = "forged", !.Signature = "other",
                    !.Resources = <<PipeA>>]
ConfigStatus ==
    [Config0 EXCEPT !.Data = "status",
                    !.Resources = <<PipeNoFail, PipeAlways>>]
ConfigTagOnly ==
    [Config0 EXCEPT !.Data = "tagonly", !.Resources = <<PipeTagOnly, SecretRes>>]
ConfigFilters ==
    [Config0 EXCEPT !.Data = "filters",
        !.Resources = <<PipeMainOnly, PipeNoHeads, PipeOtherRepo, PipeProd,
                        PipeTagOnly>>]

Configs ==
    { Config0, ConfigUnconvertible, ConfigUnparsable, ConfigPrivileged,
      ConfigSigned, ConfigForged, ConfigTagOnly, ConfigFilters,
      ConfigStatus }

ConfigsFew == { Config0, ConfigUnparsable, ConfigTagOnly }

\* outcomes of a collaborator call: success, an error, a panic
Outcomes == {"ok", "err", "panic"}

(***************************************************************************)
(* State                                                                   *)
(***************************************************************************)
VARIABLES
    repoRow,    \* the repository as the repository store holds it
    builds,     \* build store: the build rows, in order of creation
    stages,     \* build store: the stage rows
    queue,      \* scheduler: the stages enqueued, in order
    incs,       \* history: the invocations whose Increment succeeded, in order
    pc,         \* position of each invocation
    base,       \* the hook of each invocation
    hook0,      \* history: the hook as each invocation received it
    repo,       \* the local variable repo of each invocation
    user,       \* the repository owner found
    raw,        \* the configuration found
    errmsg,     \* the message handed to createBuildError
    verified,   \* result of the signature verification
    matched,    \* the pipelines selected
    build,      \* the build assembled
    stgs,       \* the stages assembled
    idx,        \* position in the scheduling loop
    ret,        \* the pair returned by Trigger
    calls,      \* history: the collaborator calls made, in order
    wh          \* the webhook sender: its position, context and requests

vars ==
    <<repoRow, builds, stages, queue, incs, pc, base, hook0, repo, user, raw,
      errmsg, verified, matched, build, stgs, idx, ret, calls, wh>>

stores == <<repoRow, builds, stages, queue, incs>>
locals ==
    <<base, repo, user, raw, errmsg, verified, matched, build, stgs, idx>>

\* the webhook sender before Send is called
WebhookIdle ==
    [pc |-> "idle", endpoints |-> <<>>, i |-> 0, cancelled |-> FALSE,
     requests |-> <<>>, replies |-> <<>>, err |-> NoErr]

\* time.Now().Unix(): a positive logical clock
Now == 1 + repoRow.Counter + Len(builds)

NoUser == [ID |-> 0, Active |-> FALSE]
User0 == [ID |-> 1, Active |-> TRUE]

Call(op, arg, out) == [op |-> op, arg |-> arg, out |-> out]

(***************************************************************************)
(* The pure parts of Trigger                                               *)
(***************************************************************************)
\* a gating that forgot the repositories that ignore forks
SkipHook_NoForks(r, h) ==
    \/ skipMessage(h)
    \/ h.Event = EventPullRequest /\ r.IgnorePulls

\* hook-level gating
SkipHook(r, h) ==
    \/ skipMessage(h)
    \/ /\ h.Event = EventPullRequest
       /\ \/ r.IgnorePulls
          \/ r.IgnoreForks /\ ~EqualFold(h.Fork, r.Slug)

\* the commit is looked up when the message is missing
NeedsCommit(h) == h.Message = <<>> /\ h.After # ""

\* an enrichment that overwrites the author of the hook
Enrich_Overwrite(h, commit) ==
    [h EXCEPT !.Message = commit.Message,
              !.AuthorEmail = commit.Author.Email,
              !.AuthorName = commit.Author.Name,
              !.AuthorAvatar = commit.Author.Avatar]

\* the hook after it was filled from the commit
Enrich(h, commit) ==
    [h EXCEPT !.Message = commit.Message,
              !.AuthorEmail = IF @ = "" THEN commit.Author.Email ELSE @,
              !.AuthorName = IF @ = "" THEN commit.Author.Name ELSE @,
              !.AuthorAvatar = IF @ = "" THEN commit.Author.Avatar ELSE @]

\* linter.Manifest: privileged pipelines need a trusted repository
LintError(resources, trusted) ==
    IF ~trusted /\ \E i \in 1..Len(resources) : resources[i].Privileged
    THEN "linter: untrusted repositories cannot enable privileged mode"
    ELSE NoErr

\* signer.Verify: the signature must be made with the key
SignerVerify(cfg, key) == cfg.Signature = key

Verified(r, h, cfg) ==
    IF r.Protected /\ h.Trigger = TriggerHook
    THEN SignerVerify(cfg, r.Secret)
    ELSE TRUE

\* a selection that does not look at the ref
Keep_NoRef(pipeline, r, h) ==
    ~ \/ skipBranch(pipeline, h.Target)
      \/ skipEvent(pipeline, h.Event)
      \/ skipRepo(pipeline, r.Slug)
      \/ skipTarget(pipeline, h.Deployment)

\* a pipeline is kept when no predicate skips it
Keep(pipeline, r, h) ==
    ~ \/ skipBranch(pipeline, h.Target)
      \/ skipEvent(pipeline, h.Event)
      \/ skipRef(pipeline, h.Ref)
      \/ skipRepo(pipeline, r.Slug)
      \/ skipTarget(pipeline, h.Deployment)

\* the selection loop over the resources of the manifest
RECURSIVE SelectPipelines(_, _, _)
SelectPipelines(resources, r, h) ==
    IF resources = <<>> THEN <<>>
    ELSE LET document == Head(resources)
             rest == SelectPipelines(Tail(resources), r, h)
         IN  IF document.Kind # "pipeline" THEN rest
             ELSE IF Keep(document, r, h) THEN <<document>> \o rest
             ELSE rest

\* a triggerer that builds even when nothing was selected
NoMatch_Never(sel) == FALSE

\* the build is skipped when no pipeline was selected
NoMatch(sel) == Len(sel) = 0

\* the message of a parse failure
ParseError == "yaml: cannot parse"

\* a triggerer that raised the counter of its own copy of the repository
RepoAfterIncrement_Local(old, returned) == [old EXCEPT !.Counter = @ + 1]

\* repo, err = t.repos.Increment(ctx, repo): the local repo becomes the
\* repository that Increment returned
RepoAfterIncrement(old, returned) == returned

\* a number taken from the key of the repository
BuildNumber_RepoID(r) == r.ID

\* a number one ahead of the counter
BuildNumber_Next(r) == r.Counter + 1

\* Number: repo.Counter
BuildNumber(r) == r.Counter

NewBuild(r, h, now) ==
    [ID |-> 0, RepoID |-> r.ID, Trigger |-> h.Trigger, Number |-> BuildNumber(r),
     Parent |-> h.Parent, Status |-> StatusPending, Error |-> "",
     Event |-> h.Event, Action |-> h.Action, Link |-> h.Link,
     Title |-> trunc(h.Title, TruncLimit),
     Message |-> trunc(h.Message, TruncLimit),
     Before |-> h.Before, After |-> h.After, Ref |-> h.Ref, Fork |-> h.Fork,
     Source |-> h.Source, Target |-> h.Target, Author |-> h.Author,
     AuthorName |-> h.AuthorName, AuthorEmail |-> h.AuthorEmail,
     AuthorAvatar |-> h.AuthorAvatar, Params |-> h.Params,
     Deploy |-> h.Deployment, Sender |-> h.Sender,
     Created |-> now, Updated |-> now, Finished |-> 0]

\* a status that looks at the dependencies before the verification
StageStatus_DepsFirst(isVerified, dependsOn) ==
    IF Len(dependsOn) # 0 THEN StatusWaiting
    ELSE IF isVerified = FALSE THEN StatusBlocked
    ELSE StatusPending

StageStatus(isVerified, dependsOn) ==
    IF isVerified = FALSE THEN StatusBlocked
    ELSE IF Len(dependsOn) = 0 THEN StatusPending
    ELSE StatusWaiting

\* onSuccess := match.Trigger.Status.Match(core.StatusPassing)
OnSuccess(status) == Match(status, StatusPassing, FALSE)

\* a stage that runs on failure whenever the status condition matches it
OnFailure_NoDefault(status) == Match(status, StatusFailing, FALSE)

\* onFailure: the match against failure, and false when the pipeline has
\* no status condition
OnFailure(status) ==
    IF Len(status.Include) + Len(status.Exclude) = 0
    THEN FALSE
    ELSE Match(status, StatusFailing, FALSE)

NewStage(r, match, i, isVerified, now) ==
    LET onSuccess == OnSuccess(match.Trigger.Status)
        onFailure == OnFailure(match.Trigger.Status)
    IN  [ID |-> 0, BuildID |-> 0, RepoID |-> r.ID, Number |-> i,
         Name |-> IF match.Name = "" THEN "default" ELSE match.Name,
         Kind |-> "", Type |-> "",
         OS |-> IF match.Platform.OS = "" THEN "linux" ELSE match.Platform.OS,
         Arch |-> IF match.Platform.Arch = "" THEN "amd64"
                  ELSE match.Platform.Arch,
         Variant |-> match.Platform.Variant,
         Kernel |-> match.Platform.Version,
         Limit |-> match.Concurrency.Limit,
         Status |-> StageStatus(isVerified, match.DependsOn),
         DependsOn |-> match.DependsOn,
         OnSuccess |-> onSuccess, OnFailure |-> onFailure,
         Labels |-> match.Node, Created |-> now, Updated |-> now]

\* a triggerer that lost the stages
NewStages_Empty(r, ms, isVerified, now) == <<>>

NewStages(r, ms, isVerified, now) ==
    [i \in 1..Len(ms) |-> NewStage(r, ms[i], i, isVerified, now)]

\* an error build that was left pending and unfinished
ErrorBuild_Pending(r, h, message, now) ==
    [NewBuild(r, h, now) EXCEPT !.Error = message]

\* the build of createBuildError
ErrorBuild(r, h, message, now) ==
    [ID |-> 0, RepoID |-> r.ID, Trigger |-> "", Number |-> r.Counter,
     Parent |-> h.Parent, Status |-> StatusError, Error |-> message,
     Event |-> h.Event, Action |-> h.Action, Link |-> h.Link,
     Title |-> h.Title, Message |-> h.Message,
     Before |-> h.Before, After |-> h.After, Ref |-> h.Ref, Fork |-> h.Fork,
     Source |-> h.Source, Target |-> h.Target, Author |-> h.Author,
     AuthorName |-> h.AuthorName, AuthorEmail |-> h.AuthorEmail,
     AuthorAvatar |-> h.AuthorAvatar, Params |-> "",
     Deploy |-> h.Deployment, Sender |-> h.Sender,
     Created |-> now, Updated |-> now, Finished |-> now]

\* a loop that enqueues blocked stages too
Schedulable_Blocked(stage) == Len(stage.DependsOn) = 0

\* the scheduling loop enqueues a stage without dependencies that is not
\* blocked
Schedulable(stage) == Len(stage.DependsOn) = 0 /\ stage.Status # StatusBlocked

\* a loop that starts over from the first stage while stages remain
NextSchedulable_Restart(ss, i) ==
    LET js == {j \in 1..Len(ss) : Schedulable(ss[j])}
    IN  IF i > Len(ss) \/ js = {} THEN 0
        ELSE CHOOSE j \in js : \A k \in js : j <= k

\* a loop that ends at the first stage it does not enqueue
NextSchedulable_Break(ss, i) ==
    IF i <= Len(ss) /\ Schedulable(ss[i]) THEN i ELSE 0

\* the first stage at or after position i that the loop enqueues, or 0
NextSchedulable(ss, i) ==
    LET js == {j \in i..Len(ss) : Schedulable(ss[j])}
    IN  IF js = {} THEN 0 ELSE CHOOSE j \in js : \A k \in js : j <= k

(***************************************************************************)
(* The environment of a run: the hooks that arrive and what the            *)
(* collaborators may answer.                                               *)
(***************************************************************************)
UserInactive == [ID |-> 1, Active |-> FALSE]

EnvAll ==
    [hooks |-> Hooks, users |-> {User0, UserInactive}, configs |-> Configs,
     outs |-> Outcomes]

EnvFew ==
    [hooks |-> HooksFew, users |-> {User0}, configs |-> ConfigsFew,
     outs |-> {"ok", "err"}]

(***************************************************************************)
(* The collaborators' stores                                               *)
(***************************************************************************)
\* RepositoryStore.Increment: the row with its counter raised by one
Incremented(row) == [row EXCEPT !.Counter = @ + 1]

\* BuildStore.Create: the build and its stages as stored, with their keys
StoredBuild(b) == [b EXCEPT !.ID = Len(builds) + 1]
StoredStages(ss) ==
    [i \in 1..Len(ss) |->
        [ss[i] EXCEPT !.ID = Cardinality(stages) + i,
                      !.BuildID = Len(builds) + 1]]

\* BuildStore.Create: build and stages are stored in one atomic step
BuildsCreate(b, ss) ==
    /\ builds' = Append(builds, StoredBuild(b))
    /\ stages' = stages \cup {StoredStages(ss)[i] : i \in 1..Len(ss)}

(***************************************************************************)
(* Trigger, one action per collaborator call together with the code that   *)
(* follows it up to the next call                                          *)
(***************************************************************************)
Init ==
    /\ repoRow \in ReposFew
    /\ builds = <<>>
    /\ stages = {}
    /\ queue = <<>>
    /\ incs = <<>>
    /\ pc = [p \in Procs |-> "idle"]
    /\ base = [p \in Procs |-> Hook0]
    /\ hook0 = [p \in Procs |-> Hook0]
    /\ repo = [p \in Procs |-> Repo0]
    /\ user = [p \in Procs |-> NoUser]
    /\ raw = [p \in Procs |-> NoConfig]
    /\ errmsg = [p \in Procs |-> ""]
    /\ verified = [p \in Procs |-> TRUE]
    /\ matched = [p \in Procs |-> <<>>]
    /\ build = [p \in Procs |-> NoBuild]
    /\ stgs = [p \in Procs |-> <<>>]
    /\ idx = [p \in Procs |-> 0]
    /\ ret = [p \in Procs |-> [build |-> NoBuild, err |-> NoErr]]
    /\ calls = [p \in Procs |-> <<>>]
    /\ wh = WebhookIdle

Goto(p, label) == pc' = [pc EXCEPT ![p] = label] /\ UNCHANGED ret

Return(p, b, e) ==
    /\ pc' = [pc EXCEPT ![p] = "done"]
    /\ ret' = [ret EXCEPT ![p] = [build |-> b, err |-> e]]

\* a panic that is not recovered and unwinds into the caller
Recovered_Propagates(p) == pc' = [pc EXCEPT ![p] = "crashed"] /\ UNCHANGED ret

\* a panic is recovered by the deferred function: Trigger returns its
\* zero results
Recovered(p) == Return(p, NoBuild, NoErr)

Log(p, op, arg, out) ==
    calls' = [calls EXCEPT ![p] = Append(@, Call(op, arg, out))]

\* entry of Trigger and the hook-level gating
Trigger(p, env) ==
    /\ pc[p] = "idle"
    /\ \E h \in env.hooks :
          /\ base' = [base EXCEPT ![p] = h]
          /\ hook0' = [hook0 EXCEPT ![p] = h]
          /\ repo' = [repo EXCEPT ![p] = repoRow]
          /\ IF SkipHook(repoRow, h)
             THEN Return(p, NoBuild, NoErr)
             ELSE Goto(p, "users")
    /\ UNCHANGED <<stores, user, raw, errmsg, verified, matched, build, stgs,
                   idx, calls, wh>>

\* users.Find, and the check that the owner is active
UsersFind(p, env) ==
    /\ pc[p] = "users"
    /\ \/ /\ "ok" \in env.outs
          /\ Log(p, "users.Find", repo[p].UserID, "ok")
          /\ \E u \in env.users :
                /\ user' = [user EXCEPT ![p] = u]
                /\ IF u.Active = FALSE
                   THEN Return(p, NoBuild, NoErr)
                   ELSE IF NeedsCommit(base[p])
                        THEN Goto(p, "commits")
                        ELSE Goto(p, "config")
       \/ /\ "err" \in env.outs
          /\ Log(p, "users.Find", repo[p].UserID, "err")
          /\ Return(p, NoBuild, "users.Find")
          /\ UNCHANGED user
       \/ /\ "panic" \in env.outs
          /\ Log(p, "users.Find", repo[p].UserID, "panic")
          /\ Recovered(p)
          /\ UNCHANGED user
    /\ UNCHANGED <<stores, base, repo, raw, errmsg, verified, matched, build,
                   stgs, idx>>
    /\ UNCHANGED <<hook0, wh>>

\* commits.Find, and the filling of the blank fields of the hook
CommitsFind(p, env) ==
    /\ pc[p] = "commits"
    /\ \/ /\ "ok" \in env.outs
          /\ Log(p, "commits.Find", 0, "ok")
          /\ base' = [base EXCEPT ![p] = Enrich(@, Commit0)]
          /\ Goto(p, "config")
       \/ /\ "err" \in env.outs
          /\ Log(p, "commits.Find", 0, "err")
          /\ Goto(p, "config")
          /\ UNCHANGED base
       \/ /\ "panic" \in env.outs
          /\ Log(p, "commits.Find", 0, "panic")
          /\ Recovered(p)
          /\ UNCHANGED base
    /\ UNCHANGED <<stores, repo, user, raw, errmsg, verified, matched, build,
                   stgs, idx>>
    /\ UNCHANGED <<hook0, wh>>

\* config.Find, then conversion, parsing, linting, verification and the
\* selection of the pipelines
ConfigFind(p, env) ==
    /\ pc[p] = "config"
    /\ \/ /\ "ok" \in env.outs
          /\ Log(p, "config.Find", 0, "ok")
          /\ \E cfg \in env.configs :
                LET lint == LintError(cfg.Resources, repo[p].Trusted)
                    sel == SelectPipelines(cfg.Resources, repo[p], base[p])
                IN  /\ raw' = [raw EXCEPT ![p] = cfg]
                    /\ IF ~cfg.Converts
                       THEN /\ Return(p, NoBuild, "converter.ConvertString")
                            /\ UNCHANGED <<errmsg, verified, matched>>
                       ELSE IF ~cfg.Parses
                       THEN /\ Goto(p, "errIncrement")
                            /\ errmsg' = [errmsg EXCEPT ![p] = ParseError]
                            /\ UNCHANGED <<verified, matched>>
                       ELSE IF lint # NoErr
                       THEN /\ Goto(p, "errIncrement")
                            /\ errmsg' = [errmsg EXCEPT ![p] = lint]
                            /\ UNCHANGED <<verified, matched>>
                       ELSE /\ verified' = [verified EXCEPT ![p] =
                                               Verified(repo[p], base[p], cfg)]
                            /\ matched' = [matched EXCEPT ![p] = sel]
                            /\ UNCHANGED errmsg
                            /\ IF NoMatch(sel)
                               THEN Return(p, NoBuild, NoErr)
                               ELSE Goto(p, "increment")
       \/ /\ "err" \in env.outs
          /\ Log(p, "config.Find", 0, "err")
          /\ Return(p, NoBuild, "config.Find")
          /\ UNCHANGED <<raw, errmsg, verified, matched>>
       \/ /\ "panic" \in env.outs
          /\ Log(p, "config.Find", 0, "panic")
          /\ Recovered(p)
          /\ UNCHANGED <<raw, errmsg, verified, matched>>
    /\ UNCHANGED <<stores, base, repo, user, build, stgs, idx>>
    /\ UNCHANGED <<hook0, wh>>

\* repos.Increment, then the assembly of the build and its stages
Increment(p, env) ==
    /\ pc[p] = "increment"
    /\ \/ /\ "ok" \in env.outs
          /\ Log(p, "repos.Increment", 0, "ok")
          /\ repoRow' = Incremented(repoRow)
          /\ incs' = Append(incs, p)
          /\ LET r == RepoAfterIncrement(repo[p], repoRow')
             IN  /\ repo' = [repo EXCEPT ![p] = r]
                 /\ build' = [build EXCEPT ![p] = NewBuild(r, base[p], Now)]
                 /\ stgs' = [stgs EXCEPT ![p] =
                                NewStages(r, matched[p], verified[p], Now)]
          /\ Goto(p, "create")
       \/ /\ "err" \in env.outs
          /\ Log(p, "repos.Increment", 0, "err")
          /\ Return(p, NoBuild, "repos.Increment")
          /\ UNCHANGED <<repoRow, incs, repo, build, stgs>>
       \/ /\ "panic" \in env.outs
          /\ Log(p, "repos.Increment", 0, "panic")
          /\ Recovered(p)
          /\ UNCHANGED <<repoRow, incs, repo, build, stgs>>
    /\ UNCHANGED <<builds, stages, queue, base, user, raw, errmsg, verified,
                   matched, idx>>
    /\ UNCHANGED <<hook0, wh>>

\* a webhook sent right after Create
AfterCreate_Hooks == "hooks"

\* the step that follows a successful Create: the status is sent
AfterCreate == "status"

\* a failed Create that is only logged
CreateFailed_Ignored(p) ==
    /\ Goto(p, "status")
    /\ UNCHANGED <<builds, stages, build, stgs>>

\* a failed Create ends the invocation with its error
CreateFailed(p) ==
    /\ Return(p, NoBuild, "builds.Create")
    /\ UNCHANGED <<builds, stages, build, stgs>>

\* builds.Create
Create(p, env) ==
    /\ pc[p] = "create"
    /\ \/ /\ "ok" \in env.outs
          /\ Log(p, "builds.Create", Len(stgs[p]), "ok")
          /\ BuildsCreate(build[p], stgs[p])
          /\ build' = [build EXCEPT ![p] = StoredBuild(@)]
          /\ stgs' = [stgs EXCEPT ![p] = StoredStages(@)]
          /\ Goto(p, AfterCreate)
       \/ /\ "err" \in env.outs
          /\ Log(p, "builds.Create", Len(stgs[p]), "err")
          /\ CreateFailed(p)
       \/ /\ "panic" \in env.outs
          /\ Log(p, "builds.Create", Len(stgs[p]), "panic")
          /\ Recovered(p)
          /\ UNCHANGED <<builds, stages, build, stgs>>
    /\ UNCHANGED <<repoRow, queue, incs, base, repo, user, raw, errmsg,
                   verified, matched, idx>>
    /\ UNCHANGED <<hook0, wh>>

\* where the scheduling loop stands at position i: at the next stage it
\* enqueues, or past the loop at the webhook
Loop(p, i) ==
    LET j == NextSchedulable(stgs[p], i)
    IN  /\ idx' = [idx EXCEPT ![p] = j]
        /\ IF j = 0 THEN Goto(p, "hooks") ELSE Goto(p, "sched")

\* a failed status that ends the invocation
StatusFailed_Fatal(p) == Return(p, NoBuild, "status.Send") /\ UNCHANGED idx

\* a failed status.Send is logged and the scheduling loop starts
StatusFailed(p) == Loop(p, 1)

\* status.Send, whose error is only logged
StatusSend(p, env) ==
    /\ pc[p] = "status"
    /\ \/ /\ "ok" \in env.outs
          /\ Log(p, "status.Send", 0, "ok")
          /\ Loop(p, 1)
       \/ /\ "err" \in env.outs
          /\ Log(p, "status.Send", 0, "err")
          /\ StatusFailed(p)
       \/ /\ "panic" \in env.outs
          /\ Log(p, "status.Send", 0, "panic")
          /\ Recovered(p)
          /\ UNCHANGED idx
    /\ UNCHANGED <<stores, base, repo, user, raw, errmsg, verified, matched,
                   build, stgs>>
    /\ UNCHANGED <<hook0, wh>>

\* a failed Schedule that ends the invocation without its error
ScheduleFailed_Silent(p) ==
    /\ Return(p, NoBuild, NoErr)
    /\ UNCHANGED <<queue, idx>>

\* a failed Schedule that is only logged
ScheduleFailed_Continue(p) == Loop(p, idx[p] + 1) /\ UNCHANGED queue

\* a failed Schedule ends the invocation with its error
ScheduleFailed(p) ==
    /\ Return(p, NoBuild, "sched.Schedule")
    /\ UNCHANGED <<queue, idx>>

\* sched.Schedule for the next stage of the loop
Schedule(p, env) ==
    /\ pc[p] = "sched"
    /\ \/ /\ "ok" \in env.outs
          /\ Log(p, "sched.Schedule", stgs[p][idx[p]].Number, "ok")
          /\ queue' = Append(queue, stgs[p][idx[p]])
          /\ Loop(p, idx[p] + 1)
       \/ /\ "err" \in env.outs
          /\ Log(p, "sched.Schedule", stgs[p][idx[p]].Number, "err")
          /\ ScheduleFailed(p)
       \/ /\ "panic" \in env.outs
          /\ Log(p, "sched.Schedule", stgs[p][idx[p]].Number, "panic")
          /\ Recovered(p)
          /\ UNCHANGED <<queue, idx>>
    /\ UNCHANGED <<repoRow, builds, stages, incs, base, repo, user, raw,
                   errmsg, verified, matched, build, stgs>>
    /\ UNCHANGED <<hook0, wh>>

\* hooks.Send, whose error is only logged, and the return of the build
HooksSend(p, env) ==
    /\ pc[p] = "hooks"
    /\ \/ /\ "ok" \in env.outs
          /\ Log(p, "hooks.Send", 0, "ok")
          /\ Return(p, build[p], NoErr)
       \/ /\ "err" \in env.outs
          /\ Log(p, "hooks.Send", 0, "err")
          /\ Return(p, build[p], NoErr)
       \/ /\ "panic" \in env.outs
          /\ Log(p, "hooks.Send", 0, "panic")
          /\ Recovered(p)
    /\ UNCHANGED <<stores, locals>>
    /\ UNCHANGED <<hook0, wh>>

\* createBuildError: repos.Increment and the assembly of the error build
ErrIncrement(p, env) ==
    /\ pc[p] = "errIncrement"
    /\ \/ /\ "ok" \in env.outs
          /\ Log(p, "repos.Increment", 0, "ok")
          /\ repoRow' = Incremented(repoRow)
          /\ incs' = Append(incs, p)
          /\ repo' = [repo EXCEPT ![p] = repoRow']
          /\ build' = [build EXCEPT ![p] =
                          ErrorBuild(repoRow', base[p], errmsg[p], Now)]
          /\ Goto(p, "errCreate")
       \/ /\ "err" \in env.outs
          /\ Log(p, "repos.Increment", 0, "err")
          /\ Return(p, NoBuild, "repos.Increment")
          /\ UNCHANGED <<repoRow, incs, repo, build>>
       \/ /\ "panic" \in env.outs
          /\ Log(p, "repos.Increment", 0, "panic")
          /\ Recovered(p)
          /\ UNCHANGED <<repoRow, incs, repo, build>>
    /\ UNCHANGED <<builds, stages, queue, base, user, raw, errmsg, verified,
                   matched, stgs, idx>>
    /\ UNCHANGED <<hook0, wh>>

\* createBuildError: builds.Create without stages; the build is returned
\* together with the error of Create
ErrCreate(p, env) ==
    /\ pc[p] = "errCreate"
    /\ \/ /\ "ok" \in env.outs
          /\ Log(p, "builds.Create", 0, "ok")
          /\ BuildsCreate(build[p], <<>>)
          /\ build' = [build EXCEPT ![p] = StoredBuild(@)]
          /\ Return(p, StoredBuild(build[p]), NoErr)
       \/ /\ "err" \in env.outs
          /\ Log(p, "builds.Create", 0, "err")
          /\ Return(p, build[p], "builds.Create")
          /\ UNCHANGED <<builds, stages, build>>
       \/ /\ "panic" \in env.outs
          /\ Log(p, "builds.Create", 0, "panic")
          /\ Recovered(p)
          /\ UNCHANGED <<builds, stages, build>>
    /\ UNCHANGED <<repoRow, queue, incs, base, repo, user, raw, errmsg,
                   verified, matched, stgs, idx>>
    /\ UNCHANGED <<hook0, wh>>

(***************************************************************************)
(* Spec: NumProcs invocations run concurrently on the repository.          *)
(***************************************************************************)
Next ==
    \/ \E p \in Procs : Trigger(p, EnvFew)
    \/ \E p \in Procs : UsersFind(p, EnvFew)
    \/ \E p \in Procs : ConfigFind(p, EnvFew)
    \/ \E p \in Procs : Increment(p, EnvFew)
    \/ \E p \in Procs : Create(p, EnvFew)
    \/ \E p \in Procs : StatusSend(p, EnvFew)
    \/ \E p \in Procs : Schedule(p, EnvFew)
    \/ \E p \in Procs : HooksSend(p, EnvFew)
    \/ \E p \in Procs : ErrIncrement(p, EnvFew)
    \/ \E p \in Procs : ErrCreate(p, EnvFew)

Spec == Init /\ [][Next]_vars

(***************************************************************************)
(* SpecOne: one invocation, with every hook, repository setting,           *)
(* configuration and collaborator outcome of the model.                    *)
(***************************************************************************)
InitOne ==
    /\ repoRow \in Repos
    /\ builds = <<>>
    /\ stages = {}
    /\ queue = <<>>
    /\ incs = <<>>
    /\ pc = [p \in Procs |-> "idle"]
    /\ base = [p \in Procs |-> Hook0]
    /\ hook0 = [p \in Procs |-> Hook0]
    /\ repo = [p \in Procs |-> Repo0]
    /\ user = [p \in Procs |-> NoUser]
    /\ raw = [p \in Procs |-> NoConfig]
    /\ errmsg = [p \in Procs |-> ""]
    /\ verified = [p \in Procs |-> TRUE]
    /\ matched = [p \in Procs |-> <<>>]
    /\ build = [p \in Procs |-> NoBuild]
    /\ stgs = [p \in Procs |-> <<>>]
    /\ idx = [p \in Procs |-> 0]
    /\ ret = [p \in Procs |-> [build |-> NoBuild, err |-> NoErr]]
    /\ calls = [p \in Procs |-> <<>>]
    /\ wh = WebhookIdle

NextOne ==
    \/ Trigger(1, EnvAll)
    \/ UsersFind(1, EnvAll)
    \/ CommitsFind(1, EnvAll)
    \/ ConfigFind(1, EnvAll)
    \/ Increment(1, EnvAll)
    \/ Create(1, EnvAll)
    \/ StatusSend(1, EnvAll)
    \/ Schedule(1, EnvAll)
    \/ HooksSend(1, EnvAll)
    \/ ErrIncrement(1, EnvAll)
    \/ ErrCreate(1, EnvAll)

SpecOne == InitOne /\ [][NextOne]_vars

(***************************************************************************)
(* SpecTwice: two successive invocations, the second entered after the     *)
(* first has returned, for hooks with and without a message.               *)
(***************************************************************************)
EnvTwice ==
    [hooks |-> {Hook0, HookBlank}, users |-> {User0},
     configs |-> {Config0, ConfigSigned}, outs |-> {"ok", "err"}]

\* the two invocations: the first and the one that follows it
Twice == {1, 2}

\* invocation p may be entered: the one before it has returned
Successive(p) == IF p = 1 THEN TRUE ELSE pc[p - 1] = "done"

NextTwice ==
    \/ \E p \in Twice : Successive(p) /\ Trigger(p, EnvTwice)
    \/ \E p \in Twice : UsersFind(p, EnvTwice)
    \/ \E p \in Twice : CommitsFind(p, EnvTwice)
    \/ \E p \in Twice : ConfigFind(p, EnvTwice)
    \/ \E p \in Twice : Increment(p, EnvTwice)
    \/ \E p \in Twice : Create(p, EnvTwice)
    \/ \E p \in Twice : StatusSend(p, EnvTwice)
    \/ \E p \in Twice : Schedule(p, EnvTwice)
    \/ \E p \in Twice : HooksSend(p, EnvTwice)

SpecTwice == Init /\ [][NextTwice]_vars

(***************************************************************************)
(* SpecSend: the webhook sender, called with a context that its caller     *)
(* may cancel at any moment.                                               *)
(***************************************************************************)
\* the configured endpoints, each named by its position
EndpointLists == {[k \in 1..n |-> k] : n \in 0..MaxEndpoints}

\* what the trigger owns: untouched by the sender
triggerVars ==
    <<repoRow, builds, stages, queue, incs, pc, base, hook0, repo, user, raw,
      errmsg, verified, matched, build, stgs, idx, ret, calls>>

\* the caller cancels the context it passed to Send
CancelContext ==
    /\ ~wh.cancelled
    /\ wh.pc # "done"
    /\ wh' = [wh EXCEPT !.cancelled = TRUE]
    /\ UNCHANGED triggerVars

\* sender.Send: nothing to do without endpoints, else the loop is entered
Send ==
    /\ wh.pc = "idle"
    /\ \E es \in EndpointLists :
          wh' = [wh EXCEPT !.endpoints = es, !.i = 1,
                           !.pc = IF Len(es) = 0 THEN "done" ELSE "loop"]
    /\ UNCHANGED triggerVars

\* sender.send: the request to the next endpoint is started, under a
\* context made from context.Background(); the context of the caller is
\* not looked at
send ==
    /\ wh.pc = "loop"
    /\ wh' = [wh EXCEPT
                 !.requests = Append(@, [endpoint |-> wh.endpoints[wh.i],
                                         cancelled |-> wh.cancelled]),
                 !.pc = "inflight"]
    /\ UNCHANGED triggerVars

\* client.Do returns, with a response, with an error of the transport, or
\* with the error of the one-minute timeout of the request's own context;
\* Send returns the first error, and nil after the last endpoint
Do ==
    /\ wh.pc = "inflight"
    /\ \E out \in {"ok", "err", "timeout"} :
          wh' = [wh EXCEPT
                   !.replies = Append(@, [endpoint |-> wh.endpoints[wh.i],
                                          out |-> out,
                                          cancelled |-> wh.cancelled]),
                   !.i = IF out = "ok" THEN @ + 1 ELSE @,
                   !.err = CASE out = "ok" -> @
                             [] out = "err" -> "client.Do"
                             [] out = "timeout" -> "context deadline exceeded",
                   !.pc = IF out # "ok" \/ wh.i = Len(wh.endpoints)
                          THEN "done" ELSE "loop"]
    /\ UNCHANGED triggerVars

InitSend == Init /\ repoRow = Repo0

NextSend == CancelContext \/ Send \/ send \/ Do

SpecSend == InitSend /\ [][NextSend]_vars

TypeOK ==
    /\ pc \in [Procs -> {"idle", "users", "commits", "config", "increment",
                         "create", "status", "sched", "hooks", "errIncrement",
                         "errCreate", "done"}]
    /\ repoRow.Counter >= OldCounter

(***************************************************************************)
(* Properties                                                              *)
(***************************************************************************)
\* the invocation whose build is stored under key id
CreatedBy(p, id) == build[p] # NoBuild /\ build[p].ID = id

\* position of invocation p among the successful Increment calls, or 0
IncPos(p) ==
    IF \E k \in 1..Len(incs) : incs[k] = p
    THEN CHOOSE k \in 1..Len(incs) : incs[k] = p
    ELSE 0

\* C1: under any interleaving of concurrent invocations, every persisted
\* build carries the counter value that its own invocation's Increment
\* returned (the k-th successful Increment returns OldCounter + k), so no
\* two persisted builds share a number and a build whose Increment came
\* later has a strictly larger number.
C1_NumberIsOwnIncrement ==
    /\ \A i \in 1..Len(builds) :
          \E p \in Procs :
             /\ CreatedBy(p, i)
             /\ IncPos(p) > 0
             /\ builds[i].Number = OldCounter + IncPos(p)
    /\ \A i, j \in 1..Len(builds) :
          i # j => builds[i].Number # builds[j].Number
    /\ \A p, q \in Procs :
          IncPos(p) < IncPos(q) =>
             \A i, j \in 1..Len(builds) :
                (CreatedBy(p, i) /\ CreatedBy(q, j))
                   => builds[i].Number < builds[j].Number

\* two builds are persisted by invocations that overlapped: the one that
\* incremented first persisted last
C1_Witness ==
    \E p, q \in Procs :
       /\ CreatedBy(p, 2) /\ CreatedBy(q, 1)
       /\ Len(builds) >= 2
       /\ IncPos(p) > 0 /\ IncPos(p) < IncPos(q)

Done(p) == pc[p] = "done"

\* Trigger returned a build and no error
ReturnedBuild(p) == Done(p) /\ ret[p].build # NoBuild /\ ret[p].err = NoErr

Called(p, op) == \E i \in 1..Len(calls[p]) : calls[p][i].op = op

CalledOk(p, op) ==
    \E i \in 1..Len(calls[p]) : calls[p][i].op = op /\ calls[p][i].out = "ok"

LastCall(p) == calls[p][Len(calls[p])]

StagesOf(id) == {s \in stages : s.BuildID = id}

\* the stores as they were before the first invocation
StoresUntouched ==
    /\ repoRow.Counter = OldCounter
    /\ incs = <<>>
    /\ builds = <<>>
    /\ stages = {}
    /\ queue = <<>>

\* C2 as stated: once the invocations have returned, the numbers of the
\* builds returned by the successful triggers are exactly OldCounter+1,
\* OldCounter+2, ... without gaps.
C2_NoGaps ==
    (\A p \in Procs : pc[p] \in {"idle", "done"}) =>
        LET R == {p \in Procs : ReturnedBuild(p)}
        IN  {ret[p].build.Number : p \in R}
               = (OldCounter + 1)..(OldCounter + Cardinality(R))

\* an invocation failed after its Increment: at Create or at Schedule, or
\* by the panic of a collaborator
FailedAfterIncrement(p) ==
    \E i \in 1..Len(calls[p]) :
       \/ calls[p][i].out = "panic"
       \/ /\ calls[p][i].op \in {"builds.Create", "sched.Schedule"}
          /\ calls[p][i].out = "err"

\* C2 amended: the counter is OldCounter plus the number of successful
\* Increment calls; the build a successful trigger returns carries
\* OldCounter + k when its Increment was the k-th; no invocation draws two
\* numbers; and the number drawn by an invocation that has returned is
\* missing from the returned builds exactly when that invocation failed
\* after its Increment, so gaps may occur.
C2_NumbersFollowIncrements ==
    /\ repoRow.Counter = OldCounter + Len(incs)
    /\ \A j, k \in 1..Len(incs) : j # k => incs[j] # incs[k]
    /\ \A p \in Procs :
          ReturnedBuild(p) =>
             /\ IncPos(p) > 0
             /\ ret[p].build.Number = OldCounter + IncPos(p)
    /\ \A p \in Procs :
          (Done(p) /\ IncPos(p) > 0) =>
             (ReturnedBuild(p) <=> ~FailedAfterIncrement(p))

\* all invocations have returned, and the first number drawn was lost while
\* the second was returned
C2_Witness ==
    /\ \A p \in Procs : Done(p)
    /\ \E p \in Procs :
          /\ ReturnedBuild(p)
          /\ ret[p].build.Number = OldCounter + 2
    /\ \A p \in Procs :
          ReturnedBuild(p) => ret[p].build.Number # OldCounter + 1

\* C3: a build and its stages are stored together: the stage rows of a
\* build are the stages its invocation handed to Create, a build that is
\* not an error build has at least one stage, an error build has none, and
\* every stage row belongs to a stored build.
C3_BuildWithStages ==
    /\ \A i \in 1..Len(builds) :
          /\ builds[i].ID = i
          /\ \E p \in Procs :
                /\ CreatedBy(p, i)
                /\ StagesOf(i) = {stgs[p][k] : k \in 1..Len(stgs[p])}
          /\ builds[i].Status # StatusError => StagesOf(i) # {}
          /\ builds[i].Status = StatusError => StagesOf(i) = {}
    /\ \A s \in stages : s.BuildID \in 1..Len(builds)

\* an error build and a build with two stages are stored
C3_Witness ==
    \E i, j \in 1..Len(builds) :
       /\ builds[i].Status = StatusError
       /\ builds[j].Status = StatusPending
       /\ Cardinality(StagesOf(j)) = 2

\* C4: a persisted stage is Blocked iff the signature verification of its
\* invocation failed, which happens only on a protected repository with a
\* hook as trigger; otherwise it is Pending iff it has no dependencies, and
\* Waiting otherwise.
C4_InitialStatus ==
    \A s \in stages :
       \E p \in Procs :
          /\ CreatedBy(p, s.BuildID)
          /\ s.Status \in {StatusBlocked, StatusPending, StatusWaiting}
          /\ s.Status = StatusBlocked <=> verified[p] = FALSE
          /\ verified[p] = FALSE =>
                /\ repo[p].Protected
                /\ base[p].Trigger = TriggerHook
                /\ ~SignerVerify(raw[p], repo[p].Secret)
          /\ (repo[p].Protected /\ base[p].Trigger = TriggerHook
                /\ ~SignerVerify(raw[p], repo[p].Secret)) => verified[p] = FALSE
          /\ verified[p] =>
                /\ s.Status = StatusPending <=> s.DependsOn = <<>>
                /\ s.Status = StatusWaiting <=> s.DependsOn # <<>>

\* a blocked stage with a dependency is stored
C4_Witness ==
    \E s \in stages : s.Status = StatusBlocked /\ s.DependsOn # <<>>

\* C5: every Schedule call of an invocation comes after the successful
\* Create of that invocation and is for a stage stored by it, which was
\* stored Pending and without dependencies.
C5_ScheduleOnlyPending ==
    \A p \in Procs :
       \A i \in 1..Len(calls[p]) :
          calls[p][i].op = "sched.Schedule" =>
             /\ \E j \in 1..(i - 1) :
                   /\ calls[p][j].op = "builds.Create"
                   /\ calls[p][j].out = "ok"
             /\ build[p].ID \in 1..Len(builds)
             /\ calls[p][i].arg \in 1..Len(stgs[p])
             /\ LET s == stgs[p][calls[p][i].arg]
                IN  /\ s \in stages
                    /\ s.BuildID = build[p].ID
                    /\ s.Status = StatusPending
                    /\ s.DependsOn = <<>>
    /\ \A k \in 1..Len(queue) :
          /\ queue[k] \in stages
          /\ queue[k].Status = StatusPending
          /\ queue[k].DependsOn = <<>>

\* a stage of a stored build was enqueued while a waiting stage of that
\* build was not
C5_Witness ==
    \E p \in Procs :
       /\ CalledOk(p, "sched.Schedule")
       /\ \E k \in 1..Len(queue) : queue[k].BuildID = build[p].ID
       /\ \E s \in StagesOf(build[p].ID) :
             s.Status = StatusWaiting /\ \A k \in 1..Len(queue) : queue[k] # s

\* stage k of invocation p was passed to Schedule
Passed(p, k) ==
    \E i \in 1..Len(calls[p]) :
       calls[p][i].op = "sched.Schedule" /\ calls[p][i].arg = k

PendingFree(stage) == stage.Status = StatusPending /\ stage.DependsOn = <<>>

\* invocation p stored a build with stages
StoredWithStages(p) ==
    /\ build[p] # NoBuild
    /\ build[p].ID \in 1..Len(builds)
    /\ Len(stgs[p]) > 0

ManifestFailed(p) == errmsg[p] # ""

NoFanOut(p) ==
    /\ ~Called(p, "sched.Schedule")
    /\ ~Called(p, "status.Send")
    /\ ~Called(p, "hooks.Send")

\* the error build of invocation p is stored and was returned
ErrorBuildStored(p) ==
    /\ ret[p].build # NoBuild
    /\ ret[p].err = NoErr
    /\ ret[p].build.ID \in 1..Len(builds)
    /\ builds[ret[p].build.ID] = ret[p].build
    /\ ret[p].build.Status = StatusError
    /\ ret[p].build.Error = errmsg[p]
    /\ ret[p].build.Finished > 0
    /\ StagesOf(ret[p].build.ID) = {}

\* C7 as stated: when parsing or linting fails, Trigger stores an error
\* build without stages, makes no Schedule, status or webhook call and
\* returns that build with a nil error.
C7_ErrorBuildAlways ==
    \A p \in Procs :
       (Done(p) /\ ManifestFailed(p)) => (ErrorBuildStored(p) /\ NoFanOut(p))

\* C7 amended: when parsing or linting fails, Trigger makes no Schedule,
\* status or webhook call and stores no stage; when the Increment and the
\* Create of the error path both succeed it stores an error build (status
\* Error, the message in Error, Finished set, no stages) and returns it with
\* a nil error; when one of them fails nothing is stored and Trigger returns
\* the error of that call, or (nil, nil) after a panic.
C7_ErrorBuildUnlessStoreFails ==
    \A p \in Procs :
       ManifestFailed(p) =>
          /\ NoFanOut(p)
          /\ stages = {}
          /\ (Done(p) /\ CalledOk(p, "repos.Increment")
                /\ CalledOk(p, "builds.Create")) => ErrorBuildStored(p)
          /\ (Done(p) /\ LastCall(p).out = "err") =>
                /\ LastCall(p).op \in {"repos.Increment", "builds.Create"}
                /\ ret[p].err = LastCall(p).op
                /\ builds = <<>>
          /\ (Done(p) /\ LastCall(p).out = "panic") =>
                /\ ret[p] = [build |-> NoBuild, err |-> NoErr]
                /\ builds = <<>>

\* linting failed and the error build was returned
C7_Witness ==
    \E p \in Procs :
       /\ Done(p)
       /\ ManifestFailed(p)
       /\ errmsg[p] # ParseError
       /\ ErrorBuildStored(p)

\* C8: every return of Trigger is (nil, nil), (nil, err) or (build, nil)
\* with a build whose status is Error or Pending; a build is never returned
\* together with an error.
C8_ReturnShapes ==
    \A p \in Procs :
       Done(p) =>
          \/ ret[p].build = NoBuild
          \/ /\ ret[p].err = NoErr
             /\ ret[p].build.Status \in {StatusError, StatusPending}

\* the selection of invocation p ran and kept no pipeline
NothingMatched(p) ==
    /\ Done(p)
    /\ raw[p] # NoConfig
    /\ raw[p].Converts
    /\ raw[p].Parses
    /\ LintError(raw[p].Resources, repo[p].Trusted) = NoErr
    /\ SelectPipelines(raw[p].Resources, repo[p], base[p]) = <<>>

IncrementBeforeCreate(p) ==
    \A i \in 1..Len(calls[p]) :
       calls[p][i].op = "builds.Create" =>
          \E j \in 1..(i - 1) :
             calls[p][j].op = "repos.Increment" /\ calls[p][j].out = "ok"

SkipsWithoutIncrement(p) ==
    NothingMatched(p) =>
       /\ ret[p] = [build |-> NoBuild, err |-> NoErr]
       /\ ~Called(p, "repos.Increment")
       /\ ~Called(p, "builds.Create")
       /\ repoRow.Counter = OldCounter

\* C9 as stated: Increment is called only after the selection has kept at
\* least one pipeline, and before Create; an invocation in which nothing
\* matches returns (nil, nil) and leaves the counter unchanged.
C9_IncrementOnlyAfterMatch ==
    \A p \in Procs :
       /\ Called(p, "repos.Increment") => Len(matched[p]) > 0
       /\ IncrementBeforeCreate(p)
       /\ SkipsWithoutIncrement(p)

\* C9 amended: Increment is called only after the selection has kept at
\* least one pipeline or, on the error-build path, after parsing or linting
\* has failed, and before Create; an invocation in which nothing matches
\* returns (nil, nil) and leaves the counter unchanged.
C9_IncrementAfterMatchOrFailure ==
    \A p \in Procs :
       /\ Called(p, "repos.Increment") =>
             \/ Len(matched[p]) > 0 /\ ~ManifestFailed(p)
             \/ ManifestFailed(p) /\ Len(matched[p]) = 0
       /\ IncrementBeforeCreate(p)
       /\ SkipsWithoutIncrement(p)

\* an invocation found pipelines, none for its event, and returned
C9_Witness ==
    \E p \in Procs :
       /\ NothingMatched(p)
       /\ raw[p] = ConfigTagOnly
       /\ base[p].Event = EventPush

\* the hook is gated: it carries a skip directive, or it is a pull request
\* and the repository ignores pull requests, or ignores forks and the fork
\* is not the repository itself
Gated(r, h) ==
    \/ skipMessage(h)
    \/ h.Event = EventPullRequest /\ r.IgnorePulls
    \/ /\ h.Event = EventPullRequest
       /\ r.IgnoreForks
       /\ ToLower(h.Fork) # ToLower(r.Slug)

\* C10: a gated hook makes Trigger return (nil, nil) without any
\* collaborator call, and the stores stay as they were.
C10_GatedHookDoesNothing ==
    \A p \in Procs :
       (pc[p] # "idle" /\ Gated(repo[p], base[p])) =>
          /\ Done(p)
          /\ ret[p] = [build |-> NoBuild, err |-> NoErr]
          /\ calls[p] = <<>>
          /\ StoresUntouched

\* a pull request from a fork returned from a repository that ignores forks
C10_Witness ==
    \E p \in Procs :
       /\ Done(p)
       /\ base[p] = HookPullFork
       /\ repo[p].IgnoreForks
       /\ calls[p] = <<>>

\* the calls whose error ends Trigger
FatalOps == {"users.Find", "config.Find", "repos.Increment", "builds.Create"}

\* the error with which invocation p failed at a fatal step: the failing
\* call, or the conversion of the configuration
FatalError(p) ==
    IF \E i \in 1..Len(calls[p]) :
          calls[p][i].op \in FatalOps /\ calls[p][i].out = "err"
    THEN LastCall(p).op
    ELSE "converter.ConvertString"

\* owner lookup, configuration find, conversion, Increment or Create failed
FailedFatally(p) ==
    /\ Done(p)
    /\ \/ \E i \in 1..Len(calls[p]) :
             calls[p][i].op \in FatalOps /\ calls[p][i].out = "err"
       \/ raw[p] # NoConfig /\ ~raw[p].Converts

\* C11 as stated: when the owner lookup, the configuration find, the
\* conversion, the counter increment or the build persistence fails,
\* Trigger returns (nil, err) with that error, the build store holds no
\* build of that invocation, and no Schedule, status or webhook call was
\* made.
C11_FatalReturnsNil ==
    \A p \in Procs :
       FailedFatally(p) =>
          /\ ret[p] = [build |-> NoBuild, err |-> FatalError(p)]
          /\ \A i \in 1..Len(builds) : ~CreatedBy(p, i)
          /\ NoFanOut(p)

\* the index in calls[p] of a Schedule call that failed, or 0
FailedSchedule(p) ==
    IF \E i \in 1..Len(calls[p]) :
          calls[p][i].op = "sched.Schedule" /\ calls[p][i].out = "err"
    THEN CHOOSE i \in 1..Len(calls[p]) :
            calls[p][i].op = "sched.Schedule" /\ calls[p][i].out = "err"
    ELSE 0

\* the numbers of the stages of invocation p that are in the queue
Enqueued(p) ==
    {queue[k].Number : k \in {j \in 1..Len(queue) :
                                 CreatedBy(p, queue[j].BuildID)}}

\* the numbers of the stages whose Schedule call succeeded
ScheduledOk(p) ==
    {calls[p][i].arg : i \in {j \in 1..Len(calls[p]) :
                                 /\ calls[p][j].op = "sched.Schedule"
                                 /\ calls[p][j].out = "ok"}}

\* C12: when Schedule fails for a stage, Trigger returns (nil, err) with
\* that error; the build and all its stages stay in the store as Create
\* stored them; the failed call is the last call of the invocation, so no
\* further stage is enqueued (the queue holds the stages scheduled before
\* the failure and not the failed one) and no webhook is sent.
C12_ScheduleFailureKeepsBuild ==
    \A p \in Procs :
       FailedSchedule(p) > 0 =>
          /\ Done(p)
          /\ ret[p] = [build |-> NoBuild, err |-> "sched.Schedule"]
          /\ FailedSchedule(p) = Len(calls[p])
          /\ ~Called(p, "hooks.Send")
          /\ build[p].ID \in 1..Len(builds)
          /\ builds[build[p].ID] = build[p]
          /\ StagesOf(build[p].ID) = {stgs[p][k] : k \in 1..Len(stgs[p])}
          /\ Cardinality(StagesOf(build[p].ID)) = Len(stgs[p])
          /\ Enqueued(p) = ScheduledOk(p)
          /\ LastCall(p).arg \notin Enqueued(p)

\* Schedule failed for the third stage after the first stage was enqueued
\* and the second, a waiting stage, was passed over
C12_Witness ==
    \E p \in Procs :
       /\ FailedSchedule(p) > 0
       /\ LastCall(p).arg = 3
       /\ Enqueued(p) = {1}
       /\ Cardinality(StagesOf(build[p].ID)) = 3

\* the calls whose error is logged and ignored
SoftOps == {"commits.Find", "status.Send", "hooks.Send"}

\* the hook as the commit lookup leaves it when the commit is found
FoundHook(p) ==
    IF NeedsCommit(hook0[p]) THEN Enrich(hook0[p], Commit0) ELSE hook0[p]

\* a build and a stage without their store keys and timestamps
BuildContent(b) == [b EXCEPT !.ID = 0, !.Created = 0, !.Updated = 0]
StageContent(s) ==
    [s EXCEPT !.ID = 0, !.BuildID = 0, !.Created = 0, !.Updated = 0]

\* the stages that a run without failures persists for invocation p
ExpectedStages(p) ==
    NewStages(repo[p],
              SelectPipelines(raw[p].Resources, repo[p], hook0[p]),
              Verified(repo[p], hook0[p], raw[p]), 0)

\* invocation p has returned; a call of SoftOps failed, no call panicked
\* and every other collaborator answered as in a run that ends with a
\* stored and scheduled build
OnlySoftFailures(p) ==
    /\ Done(p)
    /\ \E i \in 1..Len(calls[p]) :
          calls[p][i].op \in SoftOps /\ calls[p][i].out = "err"
    /\ \A i \in 1..Len(calls[p]) :
          /\ calls[p][i].out # "panic"
          /\ calls[p][i].op \notin SoftOps => calls[p][i].out = "ok"
    /\ user[p].Active
    /\ raw[p] # NoConfig /\ raw[p].Converts /\ raw[p].Parses
    /\ LintError(raw[p].Resources, repo[p].Trusted) = NoErr
    /\ ExpectedStages(p) # <<>>

\* what holds of invocation p when it behaves as a run without failures
\* in which the hook after the commit lookup is h
SameOutcome(p, h) ==
    /\ ReturnedBuild(p)
    /\ build[p].ID \in 1..Len(builds)
    /\ ret[p].build = builds[build[p].ID]
    /\ BuildContent(builds[build[p].ID])
          = BuildContent(NewBuild(repo[p], h, 0))
    /\ {StageContent(s) : s \in StagesOf(build[p].ID)}
          = {StageContent(ExpectedStages(p)[k]) :
                k \in 1..Len(ExpectedStages(p))}
    /\ Enqueued(p) = {k \in 1..Len(ExpectedStages(p)) :
                         PendingFree(ExpectedStages(p)[k])}
    /\ Called(p, "status.Send")
    /\ Called(p, "hooks.Send")

\* a failed commit lookup is followed by the configuration find
ContinuesAfterCommit(p) ==
    \A i \in 1..Len(calls[p]) :
       (calls[p][i].op = "commits.Find" /\ calls[p][i].out = "err") =>
          IF i = Len(calls[p]) THEN pc[p] = "config"
          ELSE calls[p][i + 1].op = "config.Find"

\* C13 as stated: a failure of commits.Find, status.Send or hooks.Send
\* changes nothing: the build and the stages of the run without the
\* failure (where the commit was found) are persisted, the same stages
\* are enqueued, the later steps run and Trigger returns the build.
C13_SoftFailuresChangeNothing ==
    \A p \in Procs :
       /\ ContinuesAfterCommit(p)
       /\ OnlySoftFailures(p) => SameOutcome(p, FoundHook(p))

\* C13 amended: such a failure never ends the invocation and changes
\* neither the stages persisted and enqueued nor the returned result; the
\* persisted build is the same too, except that after a failed commit
\* lookup it carries the message and author fields of the hook as it was
\* received, not those of the commit.
C13_SoftFailuresKeepFlow ==
    \A p \in Procs :
       /\ ContinuesAfterCommit(p)
       /\ OnlySoftFailures(p) =>
             SameOutcome(p, IF CalledOk(p, "commits.Find")
                            THEN FoundHook(p) ELSE hook0[p])

\* the commit lookup, the status and the webhook all failed and the build
\* was returned, with a blank message
C13_Witness ==
    \E p \in Procs :
       /\ OnlySoftFailures(p)
       /\ \A i \in 1..Len(calls[p]) :
             calls[p][i].op \in SoftOps => calls[p][i].out = "err"
       /\ Called(p, "commits.Find")
       /\ ReturnedBuild(p)
       /\ ret[p].build.Message = <<>>
       /\ Enqueued(p) # {}

\* a collaborator call of invocation p panicked
Panicked(p) == \E i \in 1..Len(calls[p]) : calls[p][i].out = "panic"

\* C14: when a collaborator call panics, at whatever step, the panic is
\* recovered inside Trigger: the invocation returns, with (nil, nil), and
\* the panicking call is its last call.
C14_PanicReturnsNilNil ==
    \A p \in Procs :
       Panicked(p) =>
          /\ Done(p)
          /\ ret[p] = [build |-> NoBuild, err |-> NoErr]
          /\ LastCall(p).out = "panic"
          /\ \A i \in 1..(Len(calls[p]) - 1) : calls[p][i].out # "panic"

\* the webhook call panicked after the build was stored and enqueued
C14_Witness ==
    \E p \in Procs :
       /\ Panicked(p)
       /\ LastCall(p).op = "hooks.Send"
       /\ Enqueued(p) # {}
       /\ ret[p].build = NoBuild

\* the place of each collaborator call in the order of the steps
Rank(op) ==
    CASE op = "users.Find" -> 1
      [] op = "commits.Find" -> 2
      [] op = "config.Find" -> 3
      [] op = "repos.Increment" -> 4
      [] op = "builds.Create" -> 5
      [] op = "status.Send" -> 6
      [] op = "sched.Schedule" -> 7
      [] op = "hooks.Send" -> 8

\* the earlier step that a step needs to have completed
Needs(op) ==
    CASE op = "users.Find" -> "users.Find"
      [] op = "commits.Find" -> "users.Find"
      [] op = "config.Find" -> "users.Find"
      [] op = "repos.Increment" -> "config.Find"
      [] op = "builds.Create" -> "repos.Increment"
      [] op = "status.Send" -> "builds.Create"
      [] op = "sched.Schedule" -> "status.Send"
      [] op = "hooks.Send" -> "status.Send"

\* the call has returned, with success or with an error that is ignored
Completed(c) == c.out = "ok" \/ (c.op \in SoftOps /\ c.out = "err")

\* C15: the steps of an invocation come in the order gating, owner lookup,
\* commit enrichment, configuration find, selection, Increment, Create,
\* and only after a successful Create the status, the enqueues and the
\* webhook: no call is made by a gated hook, calls are made in that order,
\* each one after the previous call has completed and after the step it
\* needs has completed; the commit is looked up before the configuration
\* is and the pipelines are selected before the counter is raised.
C15_StepsInOrder ==
    \A p \in Procs :
       /\ calls[p] # <<>> => ~SkipHook(repo[p], hook0[p])
       /\ \A i, j \in 1..Len(calls[p]) :
             i < j =>
                /\ Rank(calls[p][i].op) <= Rank(calls[p][j].op)
                /\ Rank(calls[p][i].op) = Rank(calls[p][j].op)
                      => calls[p][j].op = "sched.Schedule"
       /\ \A j \in 2..Len(calls[p]) :
             /\ Completed(calls[p][j - 1])
             /\ \E i \in 1..(j - 1) :
                   /\ calls[p][i].op = Needs(calls[p][j].op)
                   /\ Completed(calls[p][i])
       /\ (Called(p, "config.Find") /\ NeedsCommit(hook0[p]))
             => Called(p, "commits.Find")
       /\ (Called(p, "repos.Increment") /\ ~ManifestFailed(p)) =>
             /\ matched[p] = SelectPipelines(raw[p].Resources, repo[p], base[p])
             /\ matched[p] # <<>>
       /\ Called(p, "sched.Schedule") => CalledOk(p, "builds.Create")

\* an invocation went through every step, with two enqueues
C15_Witness ==
    \E p \in Procs :
       /\ ReturnedBuild(p)
       /\ Len(calls[p]) = 9
       /\ calls[p][2].op = "commits.Find"
       /\ calls[p][8].op = "sched.Schedule"

\* the context of invocation p was cancelled before Create completed: the
\* next call that honours the context failed, and ended the invocation
CancelledBeforeCreate(p) ==
    /\ Done(p)
    /\ ~CalledOk(p, "builds.Create")
    /\ \E i \in 1..Len(calls[p]) :
          calls[p][i].op \in FatalOps /\ calls[p][i].out = "err"

\* C16 as stated: a cancellation before Create has completed makes
\* Trigger return the error of the failing call and leaves no partial
\* state: the build store and the counter of the repository are as they
\* were before the invocation.
C16_CancelLeavesNoTrace ==
    \A p \in Procs :
       CancelledBeforeCreate(p) =>
          /\ ret[p].err = FatalError(p)
          /\ builds = <<>> /\ stages = {} /\ queue = <<>>
          /\ repoRow.Counter = OldCounter

\* C16 amended: such a cancellation makes Trigger return the error of the
\* failing call, with no build, stage or queue entry written and no status
\* or webhook sent; the counter is as before when the failing call is
\* Increment or an earlier one, and is one higher, a number spent on no
\* build, when Increment succeeded and Create is the call that failed.
C16_CancelSpendsNumber ==
    \A p \in Procs :
       CancelledBeforeCreate(p) =>
          /\ ret[p].err = FatalError(p)
          /\ builds = <<>> /\ stages = {} /\ queue = <<>>
          /\ NoFanOut(p)
          /\ repoRow.Counter =
                IF CalledOk(p, "repos.Increment") THEN OldCounter + 1
                ELSE OldCounter
          /\ CalledOk(p, "repos.Increment") <=> LastCall(p).op = "builds.Create"

\* Create failed after Increment on the main path: nothing is stored and
\* the counter was raised
C16_Witness ==
    \E p \in Procs :
       /\ CancelledBeforeCreate(p)
       /\ ~ManifestFailed(p)
       /\ LastCall(p).op = "builds.Create"
       /\ repoRow.Counter = OldCounter + 1
       /\ builds = <<>>

\* a stored build without its key, its number and its timestamps
BuildFields(b) ==
    [b EXCEPT !.ID = 0, !.Number = 0, !.Created = 0, !.Updated = 0]

\* the stored stages of a build in the order of their numbers, without
\* their keys and timestamps
StageList(id) ==
    [k \in 1..Cardinality(StagesOf(id)) |->
        StageContent(CHOOSE s \in StagesOf(id) : s.Number = k)]

\* both invocations succeeded, on the same hook and the same manifest
BothSucceeded(p, q) ==
    /\ p # q
    /\ ReturnedBuild(p) /\ ReturnedBuild(q)
    /\ ret[p].build.Status = StatusPending
    /\ ret[q].build.Status = StatusPending
    /\ hook0[p] = hook0[q]
    /\ raw[p] = raw[q]

\* the builds and stage lists stored by p and q are equal but for the
\* number and the timestamps, and the later one has the larger number
SameBuilds(p, q) ==
    /\ BuildFields(builds[build[p].ID]) = BuildFields(builds[build[q].ID])
    /\ StageList(build[p].ID) = StageList(build[q].ID)
    /\ build[p].ID < build[q].ID
          => builds[build[p].ID].Number < builds[build[q].ID].Number

\* C17 as stated: with the same repository settings, the same hook and the
\* same manifest, two successive successful invocations persist builds and
\* stage lists that are equal but for Number and the timestamps, and the
\* second build has the larger number.
C17_RepeatableBuild ==
    \A p, q \in Procs : BothSucceeded(p, q) => SameBuilds(p, q)

\* C17 amended: the same holds when, in addition, the commit lookup gave
\* the same answer in both invocations (or the hook carries a message, so
\* that no lookup is made).
C17_RepeatableWithSameCommit ==
    \A p, q \in Procs :
       (/\ BothSucceeded(p, q)
        /\ CalledOk(p, "commits.Find") <=> CalledOk(q, "commits.Find"))
          => SameBuilds(p, q)

\* two successive invocations on a hook without message both found the
\* commit and stored builds of three stages with successive numbers
C17_Witness ==
    /\ BothSucceeded(1, 2)
    /\ CalledOk(1, "commits.Find") /\ CalledOk(2, "commits.Find")
    /\ builds[2].Number = builds[1].Number + 1
    /\ Len(StageList(2)) = 3
    /\ builds[2].Message = Commit0.Message

\* how many calls of op invocation p has made
Count(p, op) ==
    Cardinality({i \in 1..Len(calls[p]) : calls[p][i].op = op})

\* how many times invocation p has passed stage k to Schedule
Schedules(p, k) ==
    Cardinality({i \in 1..Len(calls[p]) :
                    calls[p][i].op = "sched.Schedule" /\ calls[p][i].arg = k})

\* C18: an invocation never does a piece of work twice: it calls Increment
\* at most once and Create at most once, sends at most one status and one
\* webhook and never passes a stage to Schedule twice; when it returns a
\* build that is not an error build it has sent the status exactly once,
\* the webhook exactly once, and has called Schedule exactly once for each
\* Pending stage without dependencies and not at all for the others.
C18_NoDuplicateWork ==
    \A p \in Procs :
       /\ Count(p, "repos.Increment") <= 1
       /\ Count(p, "builds.Create") <= 1
       /\ Count(p, "status.Send") <= 1
       /\ Count(p, "hooks.Send") <= 1
       /\ \A k \in 1..Len(stgs[p]) : Schedules(p, k) <= 1
       /\ (ReturnedBuild(p) /\ ret[p].build.Status # StatusError) =>
             /\ Count(p, "repos.Increment") = 1
             /\ Count(p, "builds.Create") = 1
             /\ Count(p, "status.Send") = 1
             /\ Count(p, "hooks.Send") = 1
             /\ \A k \in 1..Len(stgs[p]) :
                   Schedules(p, k) = IF PendingFree(stgs[p][k]) THEN 1 ELSE 0
             /\ Count(p, "sched.Schedule")
                   = Cardinality({k \in 1..Len(stgs[p]) :
                                     PendingFree(stgs[p][k])})

\* a build of three stages was returned after one status, one webhook and
\* two enqueues
C18_Witness ==
    \E p \in Procs :
       /\ ReturnedBuild(p)
       /\ Len(stgs[p]) = 3
       /\ Count(p, "sched.Schedule") = 2
       /\ Count(p, "status.Send") = 1
       /\ Count(p, "hooks.Send") = 1
       /\ Len(queue) = 2

\* the positions in the manifest of invocation p of the Pipeline resources
\* that all five predicates keep
KeptAt(p) ==
    {i \in 1..Len(raw[p].Resources) :
        LET d == raw[p].Resources[i]
        IN  /\ d.Kind = "pipeline"
            /\ ~skipBranch(d, hook0[p].Target)
            /\ ~skipEvent(d, hook0[p].Event)
            /\ ~skipRef(d, hook0[p].Ref)
            /\ ~skipRepo(d, repo[p].Slug)
            /\ ~skipTarget(d, hook0[p].Deployment)}

\* the k-th smallest member of a set of numbers
Nth(S, k) == CHOOSE i \in S : Cardinality({j \in S : j < i}) = k - 1

\* invocation p stored a build that is not an error build
StoredPending(p) ==
    /\ build[p] # NoBuild
    /\ build[p].ID \in 1..Len(builds)
    /\ builds[build[p].ID].Status # StatusError

\* C19: the stages of a stored build that is not an error build are the
\* Pipeline resources of the manifest that the branch (against the hook's
\* target), event, ref, repository and deploy-target predicates all keep:
\* one stage for each, in manifest order, the i-th with Number i, and none
\* for a resource that a predicate rejects or that is not a pipeline.
C19_StagesAreKeptPipelines ==
    \A p \in Procs :
       StoredPending(p) =>
          /\ Cardinality(StagesOf(build[p].ID)) = Cardinality(KeptAt(p))
          /\ \A k \in 1..Cardinality(KeptAt(p)) :
                \E s \in StagesOf(build[p].ID) :
                   LET d == raw[p].Resources[Nth(KeptAt(p), k)]
                   IN  /\ s.Number = k
                       /\ s.Name = IF d.Name = "" THEN "default" ELSE d.Name
                       /\ s.DependsOn = d.DependsOn

\* of the five pipelines of the manifest with filters, a tag hook stored
\* the second and the fifth, as stages 1 and 2
C19_Witness ==
    \E p \in Procs :
       /\ StoredPending(p)
       /\ Len(raw[p].Resources) = 5
       /\ KeptAt(p) = {2, 5}
       /\ \E s \in StagesOf(build[p].ID) : s.Number = 2 /\ s.Name = "T"

\* the fields that differ between two hooks
Differ(h, g) == {f \in DOMAIN h : h[f] # g[f]}

\* C20: the commit service is consulted only for a hook whose message is
\* blank and whose after-commit is not; when the commit is found the
\* message becomes the commit's and the author name, email and avatar are
\* filled from it only where the hook's are blank, every other field and
\* every non-blank author field staying as received; when the lookup is
\* not made or fails the hook is as received, and the invocation goes on
\* to the configuration find.
C20_EnrichOnlyBlank ==
    \A p \in Procs :
       /\ Called(p, "commits.Find") =>
             hook0[p].Message = <<>> /\ hook0[p].After # ""
       /\ CalledOk(p, "commits.Find") =>
             /\ base[p].Message = Commit0.Message
             /\ base[p].AuthorName =
                   IF hook0[p].AuthorName = "" THEN Commit0.Author.Name
                   ELSE hook0[p].AuthorName
             /\ base[p].AuthorEmail =
                   IF hook0[p].AuthorEmail = "" THEN Commit0.Author.Email
                   ELSE hook0[p].AuthorEmail
             /\ base[p].AuthorAvatar =
                   IF hook0[p].AuthorAvatar = "" THEN Commit0.Author.Avatar
                   ELSE hook0[p].AuthorAvatar
             /\ Differ(base[p], hook0[p])
                   \subseteq {"Message", "AuthorName", "AuthorEmail",
                              "AuthorAvatar"}
       /\ ~CalledOk(p, "commits.Find") => base[p] = hook0[p]
       /\ ContinuesAfterCommit(p)
       /\ (Called(p, "commits.Find") /\ LastCall(p).op = "commits.Find"
             /\ LastCall(p).out # "panic") => pc[p] = "config"

\* the commit was found for a hook with a blank message and a blank author
\* name: both were filled while the hook's email and avatar were kept, and
\* the build carries them
C20_Witness ==
    \E p \in Procs :
       /\ CalledOk(p, "commits.Find")
       /\ Differ(base[p], hook0[p]) = {"Message", "AuthorName"}
       /\ base[p].AuthorEmail = "o@x"
       /\ ReturnedBuild(p)
       /\ ret[p].build.AuthorName = "Cat"

\* the pipeline from which stage s of invocation p was made
PipelineOf(p, s) == raw[p].Resources[Nth(KeptAt(p), s.Number)]

\* value v is in the list
Listed(list, v) == \E i \in 1..Len(list) : list[i] = v

\* C21: for every stage of a stored build, OnSuccess is the include/exclude
\* match of the pipeline's status condition against "success" (not
\* excluded, and included or the include list empty) and OnFailure is the
\* same match against "failure" together with one of the two lists being
\* non-empty; a pipeline without status condition gives OnSuccess true and
\* OnFailure false.
C21_OnSuccessOnFailure ==
    \A p \in Procs :
       StoredPending(p) =>
          \A s \in StagesOf(build[p].ID) :
             LET c == PipelineOf(p, s).Trigger.Status
                 matches(v) ==
                     /\ ~Listed(c.Exclude, v)
                     /\ (Listed(c.Include, v) \/ c.Include = <<>>)
             IN  /\ s.OnSuccess = matches("success")
                 /\ s.OnFailure = (/\ matches("failure")
                                   /\ (c.Include # <<>> \/ c.Exclude # <<>>))
                 /\ c = NoCond => (s.OnSuccess /\ ~s.OnFailure)

\* stages are stored that run on success only with and without a status
\* condition, on failure only, and on both
C21_Witness ==
    /\ \E s \in stages : s.Name = "N" /\ s.OnSuccess /\ ~s.OnFailure
    /\ \E s \in stages : s.Name = "W" /\ s.OnSuccess /\ s.OnFailure

\* Trigger returned (nil, nil)
ReturnedNothing(p) == Done(p) /\ ret[p] = [build |-> NoBuild, err |-> NoErr]

\* 1 when the call of op by invocation p succeeded, else 0
Succeeded(p, op) == IF CalledOk(p, op) THEN 1 ELSE 0

\* C22 as stated: whenever Trigger returns (nil, nil), on the recovered
\* panic path too, the invocation called neither Increment nor Create, and
\* the counter and the build store are as before the invocation.
C22_NilNilChangedNothing ==
    \A p \in Procs :
       ReturnedNothing(p) =>
          /\ ~Called(p, "repos.Increment")
          /\ ~Called(p, "builds.Create")
          /\ StoresUntouched

\* C22 amended: when Trigger returns (nil, nil) and no collaborator
\* panicked, the invocation was a skip that called neither Increment nor
\* Create and left the counter and the stores as they were; when it
\* returns (nil, nil) after a recovered panic, what the calls before the
\* panic wrote remains: the counter is one higher if Increment had
\* succeeded, the build and its stages are stored if Create had succeeded,
\* and the stages enqueued before the panic are in the queue.
C22_NilNilSkipOrPanic ==
    \A p \in Procs :
       ReturnedNothing(p) =>
          /\ ~Panicked(p) =>
                /\ ~Called(p, "repos.Increment")
                /\ ~Called(p, "builds.Create")
                /\ StoresUntouched
          /\ Panicked(p) =>
                /\ repoRow.Counter = OldCounter + Succeeded(p, "repos.Increment")
                /\ Len(builds) = Succeeded(p, "builds.Create")
                /\ Cardinality(stages) =
                      IF CalledOk(p, "builds.Create") THEN Len(stgs[p]) ELSE 0
                /\ Enqueued(p) = ScheduledOk(p)

\* the status call panicked after a build of three stages was stored:
\* Trigger returned (nil, nil) with the counter raised
C22_Witness ==
    \E p \in Procs :
       /\ ReturnedNothing(p)
       /\ Panicked(p)
       /\ LastCall(p).op = "status.Send"
       /\ Len(builds) = 1
       /\ Cardinality(stages) = 3
       /\ repoRow.Counter = OldCounter + 1

\* the first n characters of text s, or s when it has no more than n
FirstChars(s, n) == IF Len(s) <= n THEN s ELSE SubSeq(s, 1, n)

\* C23 as stated: every stored build, normal or error build, has a title
\* and a message of at most TruncLimit characters, each the value of the
\* hook when that is within the limit and else its first TruncLimit
\* characters, and truncating them again changes nothing.
C23_TitleMessageTruncated ==
    \A i \in 1..Len(builds) :
       \E p \in Procs :
          /\ CreatedBy(p, i)
          /\ Len(builds[i].Title) <= TruncLimit
          /\ Len(builds[i].Message) <= TruncLimit
          /\ builds[i].Title = FirstChars(base[p].Title, TruncLimit)
          /\ builds[i].Message = FirstChars(base[p].Message, TruncLimit)
          /\ trunc(builds[i].Title, TruncLimit) = builds[i].Title
          /\ trunc(builds[i].Message, TruncLimit) = builds[i].Message

\* C24 as stated: the webhook sender honours the context it is called
\* with: no request is started once that context is cancelled, and a
\* request in flight when it is cancelled is aborted, that is, ends with
\* the error of the context and not with a reply or an error of its own.
C24_SenderHonoursContext ==
    /\ \A k \in 1..Len(wh.requests) : ~wh.requests[k].cancelled
    /\ \A k \in 1..Len(wh.replies) :
          wh.replies[k].cancelled => wh.replies[k].out = "canceled"

====
